---- MODULE Spec2Model ----
(***************************************************************************)
(* Arachne: synthetic fraud-ring data pipeline and graph loader.           *)
(*                                                                         *)
(*   generate_bronze.py        Entity Generator                            *)
(*   enrich_infrastructure.py  Reuse Sampler / infrastructure tables       *)
(*   inject_fraud_rings.py     Ring Injector                               *)
(*   load_bronze.py            Graph Loader (Neo4j MERGE batches)          *)
(*                                                                         *)
(* The on-disk bronze tables and the graph store are the persistent state; *)
(* each program is a sequence of steps run from the idle state.  Python's  *)
(* seeded `random` module is modelled as a generator state that every      *)
(* stage re-seeds from the configured seed and then advances once per      *)
(* draw, so a stage's output is a function of the seed, the configuration  *)
(* and the tables it reads.  Identifiers are kept as (prefix, index)       *)
(* pairs, timestamps as seconds after the start of the window, amounts in  *)
(* pence and probabilities in percent.                                     *)
(***************************************************************************)
EXTENDS Integers, Sequences, FiniteSets, TLC

VARIABLES
    disk,     \* data/bronze: one file per table
    store,    \* the graph store: nodes, their properties, relationships
    pc,       \* position of the running program, "idle" between runs
    cfg,      \* SimConfig, InfraConfig and RingConfig fields, batch sizes
    rng,      \* state of the global random generator
    runs,     \* number of runs started, per program
    last,     \* the last program started and the error it raised, if any
    snap,     \* disk and store as they were when the last program started
    enr,      \* locals of enrich_infrastructure.main
    inj,      \* locals of inject_fraud_rings.main
    ld,       \* locals of load_bronze.main, with the batches issued so far
    done      \* first completed run of each generation stage: what it read and wrote

vars == <<disk, store, pc, cfg, rng, runs, last, snap, enr, inj, ld, done>>

(***************************************************************************)
(* Bounds of the model.                                                    *)
(***************************************************************************)
MaxSeed == 11        \* seeds 0..MaxSeed
MaxRuns == 2         \* runs of each program in one behaviour
MaxBatch == 2        \* batch sizes 1..MaxBatch
WindowSeconds == 3   \* width of the generator's time window
OctetHi == 1         \* free octets of an IPv4 address range over 0..OctetHi
HostHi == 2          \* last octet ranges over 1..HostHi
MaxKey == 2          \* key indices 0..MaxKey-1 of the loader's input tables
MaxTx == 2           \* rows of the loader's input transaction table
MaxPool == 12        \* pools of _sample_with_reuse: 0, 1, MaxPool, 5 * MaxPool entries
MaxSamples == 3      \* n of _sample_with_reuse ranges over 0..MaxSamples

HourSeconds == 3600

Min(a, b) == IF a < b THEN a ELSE b
Max(a, b) == IF a > b THEN a ELSE b

SeqToSet(s) == {s[i] : i \in 1..Len(s)}

\* s[a:b] of Python, 0-based and end-exclusive, clipped to the sequence
Slice(s, a, b) == SubSeq(s, a + 1, Min(b, Len(s)))

(***************************************************************************)
(* random: the generator state advances once per draw.                     *)
(***************************************************************************)
RngStep(x) == (25173 * x + 13849) % 65536

\* random.seed(s)
RngSeed(s) == RngStep(RngStep(s % 65536))

\* the generator states after 1, 2, ..., n draws from state x
RECURSIVE Stream(_, _)
Stream(x, n) == IF n = 0 THEN <<>> ELSE <<RngStep(x)>> \o Stream(RngStep(x), n - 1)

\* the generator state after `used` draws of the stream t that started at x
RngAfter(t, x, used) == IF used = 0 THEN x ELSE t[used]

\* value of the k-th draw of stream t, as an integer in 0..n-1
Randbelow(t, k, n) == (t[k] \div 64) % n

\* random.randint(a, b)
Randint(t, k, a, b) == a + Randbelow(t, k, b - a + 1)

\* random.random() < pct / 100
Flip(t, k, pct) == Randbelow(t, k, 100) < pct

\* random.shuffle: for i = n-1 down to 1, swap s[i] with s[randbelow(i+1)]
RECURSIVE ShuffleFrom(_, _, _, _)
ShuffleFrom(s, i, t, k) ==
    IF i < 1 THEN s
    ELSE LET j == Randbelow(t, k, i + 1)
         IN  ShuffleFrom([s EXCEPT ![i + 1] = s[j + 1], ![j + 1] = s[i + 1]],
                         i - 1, t, k + 1)

\* draws 1..Len(s)-1 of stream t
Shuffle(s, t) == ShuffleFrom(s, Len(s) - 1, t, 1)

ShuffleDraws(s) == IF Len(s) = 0 THEN 0 ELSE Len(s) - 1

\* random.sample(population, k), pool variant: result[i] = pool[j],
\* then pool[j] = pool[n-i-1]
RECURSIVE SampleFrom(_, _, _, _, _)
SampleFrom(pool, i, k, t, d) ==
    IF i = k THEN <<>>
    ELSE LET n == Len(pool)
             j == Randbelow(t, d, n - i)
         IN  <<pool[j + 1]>> \o
             SampleFrom([pool EXCEPT ![j + 1] = pool[n - i]], i + 1, k, t, d + 1)

\* draws d+1..d+k of stream t
Sample(population, k, t, d) == SampleFrom(population, 0, k, t, d + 1)

(***************************************************************************)
(* Files of data/bronze.                                                   *)
(***************************************************************************)
Tables == {"people", "merchants", "devices", "ips", "cards", "addresses",
           "transactions"}

NoFile == [present |-> FALSE, cols |-> {}, rows |-> <<>>]

File(cols, rows) == [present |-> TRUE, cols |-> cols, rows |-> rows]

\* pl.DataFrame.with_columns: named columns are added or replaced, row by row
WithColumns(file, names, vals) ==
    File(file.cols \cup names,
         [i \in 1..Len(file.rows) |->
             [c \in file.cols \cup names |->
                 IF c \in names THEN vals[i][c] ELSE file.rows[i][c]]])

\* frame[col].to_list()
Column(file, c) == [i \in 1..Len(file.rows) |-> file.rows[i][c]]

Readable(file, cols) == file.present /\ cols \subseteq file.cols

NoEnr == [step |-> 0, devices |-> NoFile, ips |-> NoFile, cards |-> NoFile,
          addresses |-> NoFile, tx |-> NoFile]

(***************************************************************************)
(* generate_bronze.py                                                      *)
(***************************************************************************)
CreatedAt == -31622400   \* 2024-01-01, in seconds before the window start

Mccs == <<"5411", "5812", "5999", "5732", "4111", "4814", "6011">>

MakeId(prefix, i) == <<prefix, i>>

\* _make_ids, and the f-string comprehensions of the generator
MakeIds(prefix, n) == [i \in 1..n |-> MakeId(prefix, i - 1)]

generate_people(c) ==
    File({"person_id", "created_at"},
         [i \in 1..c.n_people |->
             [person_id |-> MakeId("P", i - 1), created_at |-> CreatedAt]])

\* draws 1..n_merchants of stream t
generate_merchants(c, t) ==
    File({"merchant_id", "mcc", "country"},
         [i \in 1..c.n_merchants |->
             [merchant_id |-> MakeId("M", i - 1),
              mcc |-> Mccs[Randbelow(t, i, Len(Mccs)) + 1],
              country |-> "GB"]])

\* draws d+1..d+4n of stream t: n timestamps, n amounts, n persons, n merchants
generate_transactions(c, people, merchants, t, d) ==
    LET n == c.n_transactions
        person_ids == Column(people, "person_id")
        merchant_ids == Column(merchants, "merchant_id")
    IN  File({"tx_id", "ts", "amount", "currency", "person_id", "merchant_id"},
             [i \in 1..n |->
                 [tx_id |-> MakeId("T", i - 1),
                  ts |-> Randint(t, d + i, 0, WindowSeconds),
                  amount |-> 150 + Randbelow(t, d + n + i, 39851),
                  currency |-> "GBP",
                  person_id |->
                      person_ids[Randbelow(t, d + 2 * n + i, Len(person_ids)) + 1],
                  merchant_id |->
                      merchant_ids[Randbelow(t, d + 3 * n + i, Len(merchant_ids)) + 1]]])

\* random.choice on an empty pool raises IndexError
GenerateFails(c) ==
    c.n_transactions > 0 /\ (c.n_people = 0 \/ c.n_merchants = 0)

\* the generator state left by the previous program is used as it is
StageSeedStale(c, g) == g

\* random.seed(cfg.seed), the first statement of every stage
StageSeed(c, g) == RngSeed(c.seed)

\* the tables a stage reads and the tables it writes
Reads ==
    [generate |-> {}, enrich |-> {"transactions"},
     inject |-> Tables \ {"merchants"}]

Writes ==
    [generate |-> {"people", "merchants", "transactions"},
     enrich |-> {"devices", "ips", "cards", "addresses", "transactions"},
     inject |-> {"transactions"}]

\* the tables of d that a stage reads, and those it writes
ReadBy(prog, d) == [t \in Reads[prog] |-> d[t]]
WrittenBy(prog, d) == [t \in Writes[prog] |-> d[t]]

\* a stage returns: the first completed run of each stage is recorded, with
\* its number among the counted runs of the stage
Completed(prog, before, after) ==
    IF prog \in DOMAIN done THEN done
    ELSE (prog :> [read |-> ReadBy(prog, before), wrote |-> WrittenBy(prog, after),
                   run |-> IF prog \in DOMAIN runs THEN runs[prog] ELSE 0])
         @@ done

\* a program starts: remember the persistent state it found
Begin(prog) ==
    /\ pc = "idle"
    /\ snap' = [disk |-> disk, store |-> store]

\* a program whose runs the model counts
BeginCounted(prog) ==
    /\ Begin(prog)
    /\ runs[prog] < MaxRuns
    /\ runs' = [runs EXCEPT ![prog] = @ + 1]

Outcome(prog, e) == [prog |-> prog, err |-> e]

\* generate_bronze.main: seed, build the three frames, write_bronze
GenerateBronze ==
    /\ Begin("generate")
    /\ LET x == StageSeed(cfg, rng)
           t == Stream(x, cfg.n_merchants + 4 * cfg.n_transactions)
           people == generate_people(cfg)
           merchants == generate_merchants(cfg, t)
           tx == generate_transactions(cfg, people, merchants, t, cfg.n_merchants)
       IN  IF GenerateFails(cfg)
           THEN /\ last' = Outcome("generate", "IndexError")
                /\ rng' = RngAfter(t, x, cfg.n_merchants + 2 * cfg.n_transactions + 1)
                /\ UNCHANGED <<disk, done>>
           ELSE /\ last' = Outcome("generate", "none")
                /\ rng' = RngAfter(t, x, cfg.n_merchants + 4 * cfg.n_transactions)
                /\ disk' = [disk EXCEPT !.people = people,
                                        !.merchants = merchants,
                                        !.transactions = tx]
                /\ done' = Completed("generate", disk, disk')
    /\ UNCHANGED <<store, pc, cfg, runs, enr, inj, ld>>

(***************************************************************************)
(* enrich_infrastructure.py                                                *)
(***************************************************************************)
\* _random_ipv4 with the draws of stream t after index d: the address and
\* the number of draws used
RandomIpv4(t, d) ==
    LET a == <<10, 172, 192>>[Randbelow(t, d + 1, 3) + 1]
    IN  IF a = 10
        THEN [ip |-> <<10, Randint(t, d + 2, 0, OctetHi),
                       Randint(t, d + 3, 0, OctetHi),
                       Randint(t, d + 4, 1, HostHi)>>,
              used |-> 4]
        ELSE IF a = 172
        THEN [ip |-> <<172, Randint(t, d + 2, 16, 16 + OctetHi),
                       Randint(t, d + 3, 0, OctetHi),
                       Randint(t, d + 4, 1, HostHi)>>,
              used |-> 4]
        ELSE [ip |-> <<192, 168, Randint(t, d + 2, 0, OctetHi),
                       Randint(t, d + 3, 1, HostHi)>>,
              used |-> 3]

\* [_random_ipv4() for _ in range(n)]: the addresses and the draws used
RECURSIVE IpValues(_, _, _)
IpValues(n, t, d) ==
    IF n = 0 THEN [vals |-> <<>>, used |-> 0]
    ELSE LET h == RandomIpv4(t, d)
             r == IpValues(n - 1, t, d + h.used)
         IN  [vals |-> <<h.ip>> \o r.vals, used |-> h.used + r.used]

\* the hot sub-pool taken to be the whole pool
HotKWholePool(pool, reuse_strength) == Len(pool)

HotK(pool, reuse_strength) ==
    Max(10, (Len(pool) * Max(2, Min(20, reuse_strength))) \div 100)

\* _sample_with_reuse on a non-empty pool: element i uses draws d+2i-1, d+2i
SampleWithReuse(pool, n, reuse_strength, t, d) ==
    LET hot == Slice(pool, 0, HotK(pool, reuse_strength))
    IN  [i \in 1..n |->
            IF Flip(t, d + 2 * i - 1, reuse_strength)
            THEN hot[Randbelow(t, d + 2 * i, Len(hot)) + 1]
            ELSE pool[Randbelow(t, d + 2 * i, Len(pool)) + 1]]

\* the branch each element of _sample_with_reuse takes: TRUE for the hot
\* sub-pool (random.random() < reuse_strength)
SampleBranches(n, reuse_strength, t, d) ==
    [i \in 1..n |-> Flip(t, d + 2 * i - 1, reuse_strength)]

\* the frames enrich_infrastructure.main builds before it writes anything
EnrichFrames(c, tx, t) ==
    LET device_ids == MakeIds("D", c.n_devices)
        ipv == IpValues(c.n_ips, t, 0)
        card_hashes == MakeIds("C", c.n_cards)
        address_hashes == MakeIds("A", c.n_addresses)
        n == Len(tx.rows)
        d0 == ipv.used
        dev == SampleWithReuse(device_ids, n, c.reuse_strength, t, d0)
        ipn == SampleWithReuse(ipv.vals, n, c.reuse_strength, t, d0 + 2 * n)
        crd == SampleWithReuse(card_hashes, n, c.reuse_strength, t, d0 + 4 * n)
        adr == SampleWithReuse(address_hashes, n, c.reuse_strength, t, d0 + 6 * n)
    IN  [devices |-> File({"device_id", "device_type"},
                          [i \in 1..c.n_devices |->
                              [device_id |-> device_ids[i], device_type |-> "mobile"]]),
         ips |-> File({"ip"}, [i \in 1..c.n_ips |-> [ip |-> ipv.vals[i]]]),
         cards |-> File({"card_hash"},
                        [i \in 1..c.n_cards |-> [card_hash |-> card_hashes[i]]]),
         addresses |-> File({"address_hash", "postcode"},
                            [i \in 1..c.n_addresses |->
                                [address_hash |-> address_hashes[i], postcode |-> "UK"]]),
         tx |-> WithColumns(tx, {"device_id", "ip", "card_hash", "address_hash"},
                   [i \in 1..n |->
                       [device_id |-> dev[i], ip |-> ipn[i],
                        card_hash |-> crd[i], address_hash |-> adr[i]]]),
         draws |-> d0 + 8 * n]

\* _sample_with_reuse raises ValueError("empty pool") before it samples
EmptyPool(c) ==
    c.n_devices = 0 \/ c.n_ips = 0 \/ c.n_cards = 0 \/ c.n_addresses = 0

\* enrich_infrastructure.main up to the first write
EnrichStart ==
    /\ Begin("enrich")
    /\ LET x == StageSeed(cfg, rng)
           t == Stream(x, 4 * cfg.n_ips + 8 * Len(disk.transactions.rows))
       IN  IF ~disk.transactions.present
           THEN /\ last' = Outcome("enrich", "FileNotFoundError")
                /\ rng' = x
                /\ UNCHANGED <<pc, enr>>
           ELSE IF EmptyPool(cfg)
           THEN /\ last' = Outcome("enrich", "ValueError")
                /\ rng' = x
                /\ UNCHANGED <<pc, enr>>
           ELSE LET f == EnrichFrames(cfg, disk.transactions, t)
                IN  /\ enr' = [step |-> 1, devices |-> f.devices, ips |-> f.ips,
                               cards |-> f.cards, addresses |-> f.addresses,
                               tx |-> f.tx]
                    /\ rng' = RngAfter(t, x, f.draws)
                    /\ pc' = "enrich_write"
                    /\ last' = Outcome("enrich", "none")
    /\ UNCHANGED <<disk, store, cfg, runs, inj, ld, done>>

EnrichTargets == <<"devices", "ips", "cards", "addresses", "transactions">>

EnrichFrame(e, k) ==
    IF k = 1 THEN e.devices
    ELSE IF k = 2 THEN e.ips
    ELSE IF k = 3 THEN e.cards
    ELSE IF k = 4 THEN e.addresses
    ELSE e.tx

\* one write_parquet of enrich_infrastructure.main, in program order
EnrichWrite ==
    /\ pc = "enrich_write"
    /\ disk' = [disk EXCEPT ![EnrichTargets[enr.step]] = EnrichFrame(enr, enr.step)]
    /\ IF enr.step = Len(EnrichTargets)
       THEN /\ pc' = "idle"
            /\ enr' = NoEnr
            /\ done' = Completed("enrich", snap.disk, disk')
       ELSE /\ pc' = pc
            /\ enr' = [enr EXCEPT !.step = @ + 1]
            /\ UNCHANGED done
    /\ UNCHANGED <<store, cfg, rng, runs, last, snap, inj, ld>>

\* a write_parquet raises (I/O error): the exception ends the program
EnrichWriteFail ==
    /\ pc = "enrich_write"
    /\ pc' = "idle"
    /\ last' = Outcome("enrich", "OSError")
    /\ enr' = NoEnr
    /\ UNCHANGED <<disk, store, cfg, rng, runs, snap, inj, ld, done>>

(***************************************************************************)
(* inject_fraud_rings.py                                                   *)
(***************************************************************************)
NoInj == [person_ids |-> <<>>, rings |-> <<>>, sizes |-> <<>>, cursor |-> 0,
          tx |-> NoFile, devices |-> <<>>, ips |-> <<>>, cards |-> <<>>,
          addrs |-> <<>>, n_fraud |-> 0, fraud_idx |-> <<>>,
          tx_person |-> <<>>, tx_ts |-> <<>>, tx_device |-> <<>>,
          tx_ip |-> <<>>, tx_card |-> <<>>, tx_addr |-> <<>>,
          ring_shared |-> <<>>, anchor_times |-> <<>>, k |-> 0, picks |-> <<>>]

\* _choose_hot
ChooseHot(pool, k) == Slice(pool, 0, Max(1, Min(k, Len(pool))))

\* the slice taken from the start of the list, not from the cursor
RingSliceFromStart(person_ids, cursor, size) == Slice(person_ids, 0, size)

\* person_ids[cursor : cursor + size]
RingSlice(person_ids, cursor, size) == Slice(person_ids, cursor, cursor + size)

\* the ring loop from ring_id on, sizes drawn with draws d+1, d+2, ... of t
RECURSIVE BuildRings(_, _, _, _, _, _)
BuildRings(c, person_ids, ring_id, cursor, t, d) ==
    IF ring_id >= c.n_rings
    THEN [rings |-> <<>>, sizes |-> <<>>, cursor |-> cursor]
    ELSE LET size == Randint(t, d + 1, c.ring_size_min, c.ring_size_max)
         IN  IF cursor + size > Len(person_ids)
             THEN [rings |-> <<>>, sizes |-> <<size>>, cursor |-> cursor]
             ELSE LET rest == BuildRings(c, person_ids, ring_id + 1,
                                         cursor + size, t, d + 1)
                  IN  [rings |-> <<RingSlice(person_ids, cursor, size)>> \o rest.rings,
                       sizes |-> <<size>> \o rest.sizes,
                       cursor |-> rest.cursor]

\* the tables and columns main reads before it builds the rings
InjectInputsReadable(d) ==
    /\ Readable(d.people, {"person_id"})
    /\ d.transactions.present
    /\ Readable(d.devices, {"device_id"})
    /\ Readable(d.ips, {"ip"})
    /\ Readable(d.cards, {"card_hash"})
    /\ Readable(d.addresses, {"address_hash"})

\* inject_fraud_rings.main: seed, read the tables, build the rings
InjectStart ==
    /\ BeginCounted("inject")
    /\ LET x == StageSeed(cfg, rng)
           t == Stream(x, Len(disk.people.rows) + cfg.n_rings)
       IN  IF ~InjectInputsReadable(disk)
           THEN /\ last' = Outcome("inject", "FileNotFoundError")
                /\ rng' = x
                /\ inj' = NoInj
                /\ UNCHANGED pc
           ELSE LET ids == Column(disk.people, "person_id")
                    person_ids == Shuffle(ids, t)
                    b == BuildRings(cfg, person_ids, 0, 0, t, ShuffleDraws(ids))
                IN  /\ rng' = RngAfter(t, x, ShuffleDraws(ids) + Len(b.sizes))
                    /\ inj' = [NoInj EXCEPT
                                 !.person_ids = person_ids,
                                 !.rings = b.rings,
                                 !.sizes = b.sizes,
                                 !.cursor = b.cursor,
                                 !.tx = disk.transactions,
                                 !.devices = Column(disk.devices, "device_id"),
                                 !.ips = Column(disk.ips, "ip"),
                                 !.cards = Column(disk.cards, "card_hash"),
                                 !.addrs = Column(disk.addresses, "address_hash")]
                    /\ IF b.rings = <<>>
                       THEN /\ last' = Outcome("inject", "RuntimeError")
                            /\ UNCHANGED pc
                       ELSE /\ last' = Outcome("inject", "none")
                            /\ pc' = "inject_select"
    /\ UNCHANGED <<disk, store, cfg, enr, ld, done>>

\* the fraud count rounded up instead of truncated
NFraudCeil(n_total, fraud_tx_share) == (n_total * fraud_tx_share + 99) \div 100

\* int(n_total * fraud_tx_share)
NFraud(n_total, fraud_tx_share) == (n_total * fraud_tx_share) \div 100

\* the check of the fraud count left out
TooFewFraudIgnored(n_fraud) == FALSE

\* if n_fraud <= 0: raise ValueError
TooFewFraud(n_fraud) == n_fraud <= 0

\* k of random.sample(range(n_total), k=min(n_fraud, n_total))
FraudSampleSize(n_fraud, n_total) == Min(n_fraud, n_total)

TxCoerceCols == {"person_id", "ts", "device_id", "ip", "card_hash", "address_hash"}

\* the card pool read from the device list
HotPoolsCardFromDevices(j) ==
    [device |-> ChooseHot(j.devices, Max(30, (Len(j.devices) * 3) \div 100)),
     ip |-> ChooseHot(j.ips, Max(40, (Len(j.ips) * 4) \div 100)),
     card |-> ChooseHot(j.devices, Max(30, (Len(j.devices) * 3) \div 100)),
     addr |-> ChooseHot(j.addrs, Max(25, (Len(j.addrs) * 3) \div 100))]

\* the four hot pools, in the order the ring_shared dictionaries draw from them
HotPools(j) ==
    [device |-> ChooseHot(j.devices, Max(30, (Len(j.devices) * 3) \div 100)),
     ip |-> ChooseHot(j.ips, Max(40, (Len(j.ips) * 4) \div 100)),
     card |-> ChooseHot(j.cards, Max(30, (Len(j.cards) * 3) \div 100)),
     addr |-> ChooseHot(j.addrs, Max(25, (Len(j.addrs) * 3) \div 100))]

\* ring_shared: four choices per ring, draws d+4(r-1)+1 .. d+4r of t for ring r
RingShared(hot, n, t, d) ==
    [r \in 1..n |->
        [device |-> hot.device[Randbelow(t, d + 4 * (r - 1) + 1, Len(hot.device)) + 1],
         ip |-> hot.ip[Randbelow(t, d + 4 * (r - 1) + 2, Len(hot.ip)) + 1],
         card |-> hot.card[Randbelow(t, d + 4 * (r - 1) + 3, Len(hot.card)) + 1],
         addr |-> hot.addr[Randbelow(t, d + 4 * (r - 1) + 4, Len(hot.addr)) + 1]]]

\* the anchors drawn from the generator's window, not from the table
AnchorTimesInWindow(tx_ts, n, t, d) ==
    [r \in 1..n |-> Randint(t, d + r, 0, WindowSeconds)]

\* anchor_times = random.sample(tx_ts, k=len(rings)), draws d+1..d+n of t
AnchorTimes(tx_ts, n, t, d) == Sample(tx_ts, n, t, d)

\* main from the fraud count to the anchor times
InjectSelect ==
    /\ pc = "inject_select"
    /\ LET n_total == Len(inj.tx.rows)
           n_fraud == NFraud(n_total, cfg.fraud_tx_share)
           k == FraudSampleSize(n_fraud, n_total)
           n_rings == Len(inj.rings)
           hot == HotPools(inj)
           t == Stream(rng, k + 5 * n_rings)
           Fail(e, used) ==
               /\ last' = Outcome("inject", e)
               /\ pc' = "idle"
               /\ rng' = RngAfter(t, rng, used)
               /\ inj' = [inj EXCEPT !.n_fraud = n_fraud]
       IN  IF TooFewFraud(n_fraud) THEN Fail("ValueError", 0)
           ELSE IF ~(TxCoerceCols \subseteq inj.tx.cols)
           THEN Fail("ColumnNotFoundError", k)
           ELSE IF \E f \in DOMAIN hot : hot[f] = <<>>
           THEN Fail("IndexError", k)
           ELSE IF n_rings > n_total THEN Fail("ValueError", k + 4 * n_rings)
           ELSE /\ inj' = [inj EXCEPT
                             !.n_fraud = n_fraud,
                             !.fraud_idx = Sample([i \in 1..n_total |-> i - 1], k, t, 0),
                             !.tx_person = Column(inj.tx, "person_id"),
                             !.tx_ts = Column(inj.tx, "ts"),
                             !.tx_device = Column(inj.tx, "device_id"),
                             !.tx_ip = Column(inj.tx, "ip"),
                             !.tx_card = Column(inj.tx, "card_hash"),
                             !.tx_addr = Column(inj.tx, "address_hash"),
                             !.ring_shared = RingShared(hot, n_rings, t, k),
                             !.anchor_times =
                                 AnchorTimes(Column(inj.tx, "ts"), n_rings, t,
                                             k + 4 * n_rings),
                             !.k = 0]
                /\ rng' = RngAfter(t, rng, k + 5 * n_rings)
                /\ pc' = IF k = 0 THEN "inject_write" ELSE "inject_coerce"
                /\ UNCHANGED last
    /\ UNCHANGED <<disk, store, cfg, runs, snap, enr, ld, done>>

\* one iteration of the loop over fraud_idx: seven draws
InjectCoerce ==
    /\ pc = "inject_coerce"
    /\ LET t == Stream(rng, 7)
           idx == inj.fraud_idx[inj.k + 1]
           r_i == Randbelow(t, 1, Len(inj.rings))
           ring_members == inj.rings[r_i + 1]
           shared == inj.ring_shared[r_i + 1]
           anchor == inj.anchor_times[r_i + 1]
           member == ring_members[Randbelow(t, 2, Len(ring_members)) + 1]
           hours == Randint(t, 3, -cfg.burst_hours_window, cfg.burst_hours_window)
           dev == Flip(t, 4, cfg.shared_device_prob)
           ip == Flip(t, 5, cfg.shared_ip_prob)
           card == Flip(t, 6, cfg.shared_card_prob)
           addr == Flip(t, 7, cfg.shared_address_prob)
       IN  /\ inj' = [inj EXCEPT
                        !.tx_person[idx + 1] = member,
                        !.tx_ts[idx + 1] = anchor + hours * HourSeconds,
                        !.tx_device[idx + 1] = IF dev THEN shared.device ELSE @,
                        !.tx_ip[idx + 1] = IF ip THEN shared.ip ELSE @,
                        !.tx_card[idx + 1] = IF card THEN shared.card ELSE @,
                        !.tx_addr[idx + 1] = IF addr THEN shared.addr ELSE @,
                        !.k = @ + 1,
                        !.picks = Append(@, [idx |-> idx, r_i |-> r_i, hours |-> hours,
                                             shared |-> <<dev, ip, card, addr>>])]
           /\ rng' = t[7]
           /\ pc' = IF inj.k + 1 = Len(inj.fraud_idx) THEN "inject_write" ELSE pc
    /\ UNCHANGED <<disk, store, cfg, runs, last, snap, enr, ld, done>>

\* the label set on the first len(fraud_idx) rows
IsFraudPrefix(n_total, fraud_idx) ==
    [i \in 1..n_total |-> IF i <= Len(fraud_idx) THEN 1 ELSE 0]

\* is_fraud = [0] * n_total, then 1 at every index of fraud_idx
IsFraud(n_total, fraud_idx) ==
    [i \in 1..n_total |-> IF i - 1 \in SeqToSet(fraud_idx) THEN 1 ELSE 0]

\* tx.with_columns(...) of the seven rewritten columns
TxOut(j) ==
    LET is_fraud == IsFraud(Len(j.tx.rows), j.fraud_idx)
    IN  WithColumns(j.tx,
            {"person_id", "ts", "device_id", "ip", "card_hash", "address_hash",
             "is_fraud"},
            [i \in 1..Len(j.tx.rows) |->
                [person_id |-> j.tx_person[i], ts |-> j.tx_ts[i],
                 device_id |-> j.tx_device[i], ip |-> j.tx_ip[i],
                 card_hash |-> j.tx_card[i], address_hash |-> j.tx_addr[i],
                 is_fraud |-> is_fraud[i]]])

\* the label column, the output frame and its write_parquet
InjectWrite ==
    /\ pc = "inject_write"
    /\ disk' = [disk EXCEPT !.transactions = TxOut(inj)]
    /\ pc' = "idle"
    /\ done' = Completed("inject", snap.disk, disk')
    /\ UNCHANGED <<store, cfg, rng, runs, last, snap, enr, inj, ld>>

\* write_parquet raises: the exception ends the program
InjectWriteFail ==
    /\ pc = "inject_write"
    /\ pc' = "idle"
    /\ last' = Outcome("inject", "OSError")
    /\ UNCHANGED <<disk, store, cfg, rng, runs, snap, enr, inj, ld, done>>

(***************************************************************************)
(* load_bronze.py                                                          *)
(***************************************************************************)
\* nodes and rels map a node (label, key) or a relationship
\* (type, source, target) to the number of copies the store holds
EmptyStore == [nodes |-> <<>>, props |-> <<>>, rels |-> <<>>]

\* the transaction query issued before the node queries
StagesTxFirst == <<"Transaction", "Person", "Merchant", "Device", "IP", "Card", "Address">>

\* the order in which main issues its queries
Stages == <<"Person", "Merchant", "Device", "IP", "Card", "Address", "Transaction">>

NodeStages == {"Person", "Merchant", "Device", "IP", "Card", "Address"}

\* the file each stage reads and the columns main selects from it
StageInput ==
    [Person |-> [file |-> "people", cols |-> {"person_id"}, key |-> "person_id"],
     Merchant |-> [file |-> "merchants", cols |-> {"merchant_id", "mcc", "country"},
                   key |-> "merchant_id"],
     Device |-> [file |-> "devices", cols |-> {"device_id", "device_type"},
                 key |-> "device_id"],
     IP |-> [file |-> "ips", cols |-> {"ip"}, key |-> "ip"],
     Card |-> [file |-> "cards", cols |-> {"card_hash"}, key |-> "card_hash"],
     Address |-> [file |-> "addresses", cols |-> {"address_hash", "postcode"},
                  key |-> "address_hash"],
     Transaction |-> [file |-> "transactions",
                      cols |-> {"tx_id", "ts", "amount", "currency", "person_id",
                                "merchant_id", "device_id", "ip", "card_hash",
                                "address_hash", "is_fraud"},
                      key |-> "tx_id"]]

\* frame.select(cols).to_dicts()
SelectDicts(file, cols) ==
    [i \in 1..Len(file.rows) |-> [c \in cols |-> file.rows[i][c]]]

\* chunked(seq, size): the batches, in the order the generator yields them
NumChunks(seq, size) == (Len(seq) + size - 1) \div size

\* every chunk one row short: seq[i : i + size - 1]
ChunkedShort(seq, size) ==
    [b \in 1..NumChunks(seq, size) |->
        Slice(seq, (b - 1) * size, (b - 1) * size + size - 1)]

Chunked(seq, size) ==
    [b \in 1..NumChunks(seq, size) |-> Slice(seq, (b - 1) * size, (b - 1) * size + size)]

NodeId(label, key) == <<label, key>>

\* MERGE (n:Label {key: value}): match by key or create
MergeNode(s, id, keyprops) ==
    IF id \in DOMAIN s.nodes THEN s
    ELSE [s EXCEPT !.nodes = (id :> 1) @@ @, !.props = (id :> keyprops) @@ @]

\* SET n.a = ..., n.b = ...
SetProps(s, id, p) == [s EXCEPT !.props[id] = p @@ @]

\* CREATE (a)-[:TYPE]->(b): one more relationship on every run
CreateRel(s, type, src, dst) ==
    IF <<type, src, dst>> \in DOMAIN s.rels
    THEN [s EXCEPT !.rels[<<type, src, dst>>] = @ + 1]
    ELSE [s EXCEPT !.rels = (<<type, src, dst>> :> 1) @@ @]

\* MERGE (a)-[:TYPE]->(b): create the relationship only if it is absent
MergeRel(s, type, src, dst) ==
    IF <<type, src, dst>> \in DOMAIN s.rels THEN s
    ELSE [s EXCEPT !.rels = (<<type, src, dst>> :> 1) @@ @]

\* Cypher datetime(), toFloat() and toInteger() on values of those types
Datetime(ts) == ts
ToFloat(amount) == amount
ToInteger(flag) == flag

\* the six nodes a transaction row refers to
RowRefs(r) ==
    [p |-> NodeId("Person", r.person_id), m |-> NodeId("Merchant", r.merchant_id),
     d |-> NodeId("Device", r.device_id), ip |-> NodeId("IP", r.ip),
     c |-> NodeId("Card", r.card_hash), a |-> NodeId("Address", r.address_hash)]

\* MATCH (p:Person ...), (m:Merchant ...), ...: a row passes only with all six
Matched(s, r) == \A f \in DOMAIN RowRefs(r) : RowRefs(r)[f] \in DOMAIN s.nodes

\* tx_query for one row of $rows
TxRow(s, r) ==
    LET t == NodeId("Transaction", r.tx_id)
        n == RowRefs(r)
        s1 == SetProps(MergeNode(s, t, [tx_id |-> r.tx_id]), t,
                       [ts |-> Datetime(r.ts), amount |-> ToFloat(r.amount),
                        currency |-> r.currency, is_fraud |-> ToInteger(r.is_fraud)])
    IN  IF ~Matched(s1, r) THEN s1
        ELSE MergeRel(MergeRel(MergeRel(MergeRel(MergeRel(MergeRel(s1,
                 "MADE", n.p, t), "TO_MERCHANT", t, n.m), "USED_DEVICE", t, n.d),
                 "FROM_IP", t, n.ip), "PAID_WITH", t, n.c), "BILLED_TO", t, n.a)

\* the node queries for one row of $rows
NodeRow(s, stage, r) ==
    LET id == NodeId(stage, r[StageInput[stage].key])
        s1 == MergeNode(s, id, [c \in {StageInput[stage].key} |-> r[c]])
    IN  IF stage \in {"Merchant", "Device", "Address"}
        THEN SetProps(s1, id, [c \in StageInput[stage].cols \ {StageInput[stage].key} |-> r[c]])
        ELSE s1

\* session.run(query, rows=batch): UNWIND $rows, one row after the other
RECURSIVE RunQuery(_, _, _)
RunQuery(s, stage, rows) ==
    IF rows = <<>> THEN s
    ELSE RunQuery(IF stage = "Transaction" THEN TxRow(s, Head(rows))
                  ELSE NodeRow(s, stage, Head(rows)),
                  stage, Tail(rows))

\* merge_nodes' default batch_size and the transaction loop's chunk size
BatchSize(l, stage) == IF stage = "Transaction" THEN l.tx_batch ELSE l.node_batch

\* the first stage from index i on that has a batch to issue, else Len(Stages)+1
RECURSIVE StageFrom(_, _)
StageFrom(tables, i) ==
    IF i > Len(Stages) THEN i
    ELSE IF tables[Stages[i]] # <<>> THEN i
    ELSE StageFrom(tables, i + 1)

\* position of the loops after batch l.batch of stage l.stage
Advance(l) ==
    IF l.batch < NumChunks(l.tables[Stages[l.stage]], BatchSize(l, Stages[l.stage]))
    THEN [stage |-> l.stage, batch |-> l.batch + 1]
    ELSE [stage |-> StageFrom(l.tables, l.stage + 1), batch |-> 1]

NoLd == [tables |-> [st \in SeqToSet(Stages) |-> <<>>], stage |-> 0, batch |-> 0,
         node_batch |-> 1, tx_batch |-> 1,
         connected |-> FALSE,
         issued |-> <<>>, store0 |-> EmptyStore, hist |-> <<>>]

\* only the first table is read before the session opens
PeopleReadable(d) == Readable(d.people, StageInput.Person.cols)

LoadInputsReadable(d) ==
    \A st \in SeqToSet(Stages) : Readable(d[StageInput[st].file], StageInput[st].cols)

\* the exception of the first read_parquet or select that fails
ReadError(d) ==
    IF \E st \in SeqToSet(Stages) : ~d[StageInput[st].file].present
    THEN "FileNotFoundError"
    ELSE "ColumnNotFoundError"

\* load_bronze.main: read the seven tables and select the columns
LoadStart ==
    /\ BeginCounted("load")
    /\ IF ~LoadInputsReadable(disk)
       THEN /\ last' = Outcome("load", ReadError(disk))
            /\ UNCHANGED <<pc, ld>>
       ELSE /\ last' = Outcome("load", "none")
            /\ pc' = "load_connect"
            /\ ld' = [ld EXCEPT
                        !.tables = [st \in SeqToSet(Stages) |->
                                       SelectDicts(disk[StageInput[st].file],
                                                   StageInput[st].cols)],
                        !.stage = 0, !.batch = 0, !.issued = <<>>,
                        !.connected = FALSE, !.store0 = store]
    /\ UNCHANGED <<disk, store, cfg, rng, enr, inj, done>>

\* main returns: the run is recorded
Finished(l, s) == Append(l.hist, [tables |-> l.tables, store0 |-> l.store0, store |-> s])

\* driver.verify_connectivity() succeeds and the session opens
LoadConnect ==
    /\ pc = "load_connect"
    /\ LET first == StageFrom(ld.tables, 1)
       IN  IF first > Len(Stages)
           THEN /\ pc' = "idle"
                /\ ld' = [ld EXCEPT !.stage = first, !.connected = TRUE,
                                    !.hist = Finished(ld, store)]
           ELSE /\ pc' = "load_batch"
                /\ ld' = [ld EXCEPT !.stage = first, !.batch = 1, !.connected = TRUE]
    /\ UNCHANGED <<disk, store, cfg, rng, runs, last, snap, enr, inj, done>>

\* driver.verify_connectivity() raises
LoadConnectFail ==
    /\ pc = "load_connect"
    /\ pc' = "idle"
    /\ last' = Outcome("load", "ServiceUnavailable")
    /\ UNCHANGED <<disk, store, cfg, rng, runs, snap, enr, inj, ld, done>>

CurrentBatch(l) ==
    Chunked(l.tables[Stages[l.stage]], BatchSize(l, Stages[l.stage]))[l.batch]

\* session.run(query, rows=batch) is accepted: the batch commits
LoadBatch ==
    /\ pc = "load_batch"
    /\ LET stage == Stages[ld.stage]
           batch == CurrentBatch(ld)
           next == Advance(ld)
           s == RunQuery(store, stage, batch)
           l == [ld EXCEPT !.issued = Append(@, [stage |-> stage, rows |-> batch,
                                                 ok |-> TRUE]),
                           !.stage = next.stage, !.batch = next.batch]
       IN  /\ store' = s
           /\ IF next.stage > Len(Stages)
              THEN /\ pc' = "idle"
                   /\ ld' = [l EXCEPT !.hist = Finished(ld, s)]
              ELSE /\ pc' = pc
                   /\ ld' = l
    /\ UNCHANGED <<disk, cfg, rng, runs, last, snap, enr, inj, done>>

\* the exception swallowed: the loops go on with the next batch
OnRejectContinue(l) ==
    IF Advance(l).stage > Len(Stages)
    THEN [pc |-> "idle", stage |-> l.stage, batch |-> l.batch]
    ELSE [pc |-> "load_batch", stage |-> Advance(l).stage, batch |-> Advance(l).batch]

\* the exception of a rejected session.run leaves both loops and main
OnReject(l) == [pc |-> "idle", stage |-> l.stage, batch |-> l.batch]

\* session.run(query, rows=batch) raises: the batch is rolled back
LoadBatchFail ==
    /\ pc = "load_batch"
    /\ LET o == OnReject(ld)
       IN  /\ pc' = o.pc
           /\ ld' = [ld EXCEPT !.issued = Append(@, [stage |-> Stages[ld.stage],
                                                     rows |-> CurrentBatch(ld),
                                                     ok |-> FALSE]),
                               !.stage = o.stage, !.batch = o.batch]
    /\ last' = Outcome("load", "Neo4jError")
    /\ UNCHANGED <<disk, store, cfg, rng, runs, snap, enr, inj, done>>

\* the whole load as one query per stage
RECURSIVE LoadStages(_, _, _)
LoadStages(s, tables, i) ==
    IF i > Len(Stages) THEN s
    ELSE LoadStages(RunQuery(s, Stages[i], tables[Stages[i]]), tables, i + 1)

(***************************************************************************)
(* Specifications.                                                         *)
(***************************************************************************)
ConfigSet(seeds, shares, n_devices) ==
    [seed : seeds,
     n_people : {3}, n_merchants : {2}, n_transactions : {3},
     n_devices : n_devices, n_ips : {3}, n_cards : {2}, n_addresses : {2},
     reuse_strength : {25},
     n_rings : {2}, ring_size_min : {1}, ring_size_max : {2},
     fraud_tx_share : shares,
     shared_device_prob : {70}, shared_ip_prob : {55},
     shared_card_prob : {35}, shared_address_prob : {45},
     burst_hours_window : {1}]

\* ring sizes that no ring of the people table can have
LargeRings(c) ==
    [c EXCEPT !.ring_size_min = c.n_people + 1, !.ring_size_max = c.n_people + 1]

Configs ==
    ConfigSet(0..MaxSeed, {8, 50, 150}, {12})
        \cup {LargeRings(c) : c \in ConfigSet(0..MaxSeed, {50}, {12})}

NoDisk == [t \in Tables |-> NoFile]

Counted == {"inject", "load"}

Init ==
    /\ disk = NoDisk
    /\ store = EmptyStore
    /\ pc = "idle"
    /\ cfg \in Configs
    /\ rng = 0
    /\ runs = [p \in Counted |-> 0]
    /\ last = Outcome("none", "none")
    /\ snap = [disk |-> NoDisk, store |-> EmptyStore]
    /\ enr = NoEnr
    /\ inj = NoInj
    /\ done = <<>>
    /\ ld = NoLd

Load == LoadStart \/ LoadConnect \/ LoadConnectFail \/ LoadBatch \/ LoadBatchFail

Enrich == EnrichStart \/ EnrichWrite \/ EnrichWriteFail

Inject == InjectStart \/ InjectSelect \/ InjectCoerce \/ InjectWrite \/ InjectWriteFail

Next == GenerateBronze \/ Enrich \/ Inject

\* the three generation stages, run in any order and any number of times
Spec == Init /\ [][Next]_vars

\* key number i of a kind, as the generation stages write it
InputKey(stage, i) ==
    IF stage = "Person" THEN MakeId("P", i)
    ELSE IF stage = "Merchant" THEN MakeId("M", i)
    ELSE IF stage = "Device" THEN MakeId("D", i)
    ELSE IF stage = "IP" THEN <<10, 0, 0, i + 1>>
    ELSE IF stage = "Card" THEN MakeId("C", i)
    ELSE IF stage = "Address" THEN MakeId("A", i)
    ELSE MakeId("T", i)

\* an entity table with the keys 0..n-1
InputTable(stage, n) ==
    LET k(i) == InputKey(stage, i - 1)
    IN  IF stage = "Person"
        THEN File({"person_id", "created_at"},
                  [i \in 1..n |-> [person_id |-> k(i), created_at |-> CreatedAt]])
        ELSE IF stage = "Merchant"
        THEN File({"merchant_id", "mcc", "country"},
                  [i \in 1..n |-> [merchant_id |-> k(i), mcc |-> Mccs[1], country |-> "GB"]])
        ELSE IF stage = "Device"
        THEN File({"device_id", "device_type"},
                  [i \in 1..n |-> [device_id |-> k(i), device_type |-> "mobile"]])
        ELSE IF stage = "IP" THEN File({"ip"}, [i \in 1..n |-> [ip |-> k(i)]])
        ELSE IF stage = "Card"
        THEN File({"card_hash"}, [i \in 1..n |-> [card_hash |-> k(i)]])
        ELSE File({"address_hash", "postcode"},
                  [i \in 1..n |-> [address_hash |-> k(i), postcode |-> "UK"]])

\* a transaction table of MaxTx rows: row i refers to key (i-1) % MaxKey of
\* kind f, or, when i is in dangling, to the key MaxKey that no table holds;
\* every row refers to key 0 of every other kind
InputTx(f, dangling) ==
    LET ref(stage, i) ==
            InputKey(stage, IF stage # f THEN 0
                            ELSE IF i \in dangling THEN MaxKey
                            ELSE (i - 1) % MaxKey)
    IN  File(StageInput.Transaction.cols,
             [i \in 1..MaxTx |->
                 [tx_id |-> InputKey("Transaction", i - 1), ts |-> i - 1,
                  amount |-> 150, currency |-> "GBP",
                  person_id |-> ref("Person", i), merchant_id |-> ref("Merchant", i),
                  device_id |-> ref("Device", i), ip |-> ref("IP", i),
                  card_hash |-> ref("Card", i), address_hash |-> ref("Address", i),
                  is_fraud |-> 0]])

\* tables in which kind f has the keys 0..MaxKey-1 and every other kind the
\* key 0; with absent, the file of kind f does not exist
InputDisk(f, dangling, absent) ==
    [t \in Tables |->
        IF t = "transactions" THEN InputTx(f, dangling)
        ELSE LET stage == CHOOSE st \in NodeStages : StageInput[st].file = t
             IN  IF stage = f /\ absent THEN NoFile
                 ELSE InputTable(stage, IF stage = f THEN MaxKey ELSE 1)]

InputDisks ==
    {InputDisk(f, dangling, absent) :
        f \in NodeStages, dangling \in SUBSET (1..MaxTx), absent \in BOOLEAN}

\* the loader started on tables it did not see before, with an empty store
InitLoad ==
    /\ disk \in InputDisks
    /\ store = EmptyStore
    /\ pc = "idle"
    /\ cfg \in ConfigSet({0}, {50}, {2})
    /\ rng = 0
    /\ runs = [p \in Counted |-> 0]
    /\ last = Outcome("none", "none")
    /\ snap = [disk |-> NoDisk, store |-> EmptyStore]
    /\ enr = NoEnr
    /\ inj = NoInj
    /\ done = <<>>
    /\ \E nb \in 1..MaxBatch, tb \in 1..MaxBatch :
          ld = [NoLd EXCEPT !.node_batch = nb, !.tx_batch = tb]

SpecLoad == InitLoad /\ [][Load]_vars

\* the generation stages and the loader, from an empty directory and store
InitFull ==
    /\ disk = NoDisk
    /\ store = EmptyStore
    /\ pc = "idle"
    /\ cfg \in ConfigSet({0}, {50}, {2})
    /\ rng = 0
    /\ runs = [p \in Counted |-> 0]
    /\ last = Outcome("none", "none")
    /\ snap = [disk |-> NoDisk, store |-> EmptyStore]
    /\ enr = NoEnr
    /\ inj = NoInj
    /\ done = <<>>
    /\ ld = [NoLd EXCEPT !.node_batch = MaxBatch, !.tx_batch = MaxBatch]

NextFull == Next \/ Load

SpecFull == InitFull /\ [][NextFull]_vars

\* _sample_with_reuse called on its own: pools of several lengths, numbers of
\* samples, reuse strengths and seeds
PoolSizes == {0, 1, MaxPool, 5 * MaxPool}

ReuseStrengths == {0, 1, 25, 100}

SampleCall(size, n) == [pool |-> MakeIds("D", size), n |-> n, out |-> <<>>, hot |-> <<>>]

InitSample ==
    /\ disk = NoDisk
    /\ store = EmptyStore
    /\ pc = "sample_call"
    /\ \E c \in ConfigSet(0..MaxSeed, {50}, {12}), rs \in ReuseStrengths :
          /\ cfg = [c EXCEPT !.reuse_strength = rs]
          /\ rng = RngSeed(c.seed)
    /\ runs = [p \in Counted |-> 0]
    /\ last = Outcome("enrich", "none")
    /\ snap = [disk |-> NoDisk, store |-> EmptyStore]
    /\ \E size \in PoolSizes, n \in 0..MaxSamples : enr = SampleCall(size, n)
    /\ inj = NoInj
    /\ ld = NoLd
    /\ done = <<>>

\* _sample_with_reuse raises for an empty pool
SampleRaise ==
    /\ pc = "sample_call"
    /\ enr.pool = <<>>
    /\ pc' = "sample_raised"
    /\ last' = Outcome("enrich", "ValueError")
    /\ UNCHANGED <<disk, store, cfg, rng, runs, snap, enr, inj, ld, done>>

\* _sample_with_reuse returns its list
SampleReturn ==
    /\ pc = "sample_call"
    /\ enr.pool # <<>>
    /\ LET t == Stream(rng, 2 * enr.n)
       IN  /\ enr' = [enr EXCEPT
                        !.out = SampleWithReuse(enr.pool, enr.n, cfg.reuse_strength, t, 0),
                        !.hot = SampleBranches(enr.n, cfg.reuse_strength, t, 0)]
           /\ rng' = RngAfter(t, rng, 2 * enr.n)
    /\ pc' = "sample_returned"
    /\ UNCHANGED <<disk, store, cfg, runs, last, snap, inj, ld, done>>

NextSample == SampleRaise \/ SampleReturn

SpecSample == InitSample /\ [][NextSample]_vars

(***************************************************************************)
(* Properties.                                                             *)
(***************************************************************************)
RelTypes == {"MADE", "TO_MERCHANT", "USED_DEVICE", "FROM_IP", "PAID_WITH", "BILLED_TO"}

TxNodes(s) == {id \in DOMAIN s.nodes : id[1] = "Transaction"}

\* the relationships of one type at transaction node t
RelsAt(s, type, t) ==
    {e \in DOMAIN s.rels :
        e[1] = type /\ (IF type = "MADE" THEN e[3] = t ELSE e[2] = t)}

\* the relationships tx_query merges for row r
RowRels(r) ==
    LET t == NodeId("Transaction", r.tx_id)
        n == RowRefs(r)
    IN  [MADE |-> <<"MADE", n.p, t>>, TO_MERCHANT |-> <<"TO_MERCHANT", t, n.m>>,
         USED_DEVICE |-> <<"USED_DEVICE", t, n.d>>, FROM_IP |-> <<"FROM_IP", t, n.ip>>,
         PAID_WITH |-> <<"PAID_WITH", t, n.c>>, BILLED_TO |-> <<"BILLED_TO", t, n.a>>]

NoDuplicates(s) ==
    /\ \A id \in DOMAIN s.nodes : s.nodes[id] = 1
    /\ \A e \in DOMAIN s.rels : s.rels[e] = 1

\* the rows of the accepted batches of a stage among the first n issued
RECURSIVE IssuedRows(_, _, _)
IssuedRows(issued, stage, n) ==
    IF n = 0 THEN <<>>
    ELSE IssuedRows(issued, stage, n - 1) \o
         (IF issued[n].stage = stage /\ issued[n].ok THEN issued[n].rows ELSE <<>>)

LoadDone == pc = "idle" /\ last = Outcome("load", "none") /\ ld.hist # <<>>

InjectDone == pc = "idle" /\ last = Outcome("inject", "none")

\* C1: a transaction row with a reference that has no node makes the load
\* fail, and no Transaction node is ever in the store without all six of its
\* relationships.
C1_MissingReferenceFails ==
    /\ \A t \in TxNodes(store) : \A type \in RelTypes : RelsAt(store, type, t) # {}
    /\ LoadDone =>
          \A i \in 1..Len(ld.tables.Transaction) :
              \A f \in DOMAIN RowRefs(ld.tables.Transaction[i]) :
                  RowRefs(ld.tables.Transaction[i])[f] \in DOMAIN store.nodes

\* C2: a second run on the store the first run filled from empty, with the
\* same tables, leaves the store as the first run left it, without duplicates.
C2_IdempotentLoad ==
    \A i \in 1..(Len(ld.hist) - 1) :
        (/\ ld.hist[i].store0 = EmptyStore
         /\ ld.hist[i + 1].tables = ld.hist[i].tables
         /\ ld.hist[i + 1].store0 = ld.hist[i].store)
        => /\ ld.hist[i + 1].store = ld.hist[i].store
           /\ NoDuplicates(ld.hist[i + 1].store)

C2_Witness ==
    /\ Len(ld.hist) >= 2
    /\ ld.hist[1].store0 = EmptyStore
    /\ ld.hist[2].store0 = ld.hist[1].store
    /\ ld.hist[2].tables = ld.hist[1].tables
    /\ DOMAIN ld.hist[2].store.rels # {}

\* C3: when a transaction batch is issued, every row of every node table has
\* been issued in an accepted batch before it.
C3_NodesBeforeTransactions ==
    \A i \in 1..Len(ld.issued) :
        ld.issued[i].stage = "Transaction" =>
            \A st \in NodeStages : IssuedRows(ld.issued, st, i - 1) = ld.tables[st]

C3_Witness ==
    \E i \in 1..Len(ld.issued) :
        /\ ld.issued[i].stage = "Transaction"
        /\ i > Cardinality(NodeStages) + 1

\* C4: after a completed load every loaded transaction has, for each of the
\* six relationship types, exactly one relationship, to the entity its row
\* names, also when an earlier load saw other references.
C4_ExactlyOneEdgePerType ==
    LoadDone =>
        \A i \in 1..Len(ld.tables.Transaction) :
            LET r == ld.tables.Transaction[i]
            IN  \A type \in RelTypes :
                    RelsAt(store, type, NodeId("Transaction", r.tx_id)) = {RowRels(r)[type]}

FraudRows(file) == {i \in 1..Len(file.rows) : file.rows[i].is_fraud = 1}

C6_RingsDisjoint ==
    /\ \A i \in 1..Len(inj.rings) :
          Cardinality(SeqToSet(inj.rings[i])) = Len(inj.rings[i])
    /\ \A i, j \in 1..Len(inj.rings) :
          i # j => SeqToSet(inj.rings[i]) \cap SeqToSet(inj.rings[j]) = {}

C6_Witness ==
    /\ Len(inj.rings) >= 2
    /\ \E i \in 1..Len(inj.rings) : Len(inj.rings[i]) >= 2

\* C7: after generator, enrichment and injector every transaction row refers
\* to a person, merchant, device, ip, card and address of the entity tables.
C7_ReferentialIntegrity ==
    InjectDone =>
        \A i \in 1..Len(disk.transactions.rows) :
            LET r == disk.transactions.rows[i]
            IN  /\ r.person_id \in SeqToSet(Column(disk.people, "person_id"))
                /\ r.merchant_id \in SeqToSet(Column(disk.merchants, "merchant_id"))
                /\ r.device_id \in SeqToSet(Column(disk.devices, "device_id"))
                /\ r.ip \in SeqToSet(Column(disk.ips, "ip"))
                /\ r.card_hash \in SeqToSet(Column(disk.cards, "card_hash"))
                /\ r.address_hash \in SeqToSet(Column(disk.addresses, "address_hash"))

C7_Witness ==
    /\ InjectDone
    /\ \E i \in 1..Len(inj.picks) : inj.picks[i].shared[3]

\* C8: a completed run leaves the store that one query per stage over the whole
\* tables would leave, whatever the batch sizes; the accepted batches of a stage
\* are consecutive non-empty pieces of its table, in row order, and cover it
\* when the run completes.
C8_ChunkSizeIndependent ==
    /\ LoadDone =>
          LET h == ld.hist[Len(ld.hist)]
          IN  h.store = LoadStages(h.store0, h.tables, 1)
    /\ \A i \in 1..Len(ld.issued) : ld.issued[i].rows # <<>>
    /\ \A st \in SeqToSet(Stages) :
          LET rows == IssuedRows(ld.issued, st, Len(ld.issued))
          IN  /\ Len(rows) <= Len(ld.tables[st])
              /\ rows = SubSeq(ld.tables[st], 1, Len(rows))
              /\ LoadDone => rows = ld.tables[st]

C8_Witness ==
    /\ LoadDone
    /\ ld.node_batch = 1
    /\ ld.tx_batch > 1
    /\ Len(ld.issued) > Len(Stages)

\* C9: a rejected batch is the last batch of its run, and the run ends with
\* the store's error.
C9_AbortOnReject ==
    \A i \in 1..Len(ld.issued) :
        ~ld.issued[i].ok =>
            /\ i = Len(ld.issued)
            /\ pc = "idle"
            /\ last = Outcome("load", "Neo4jError")

C9_Witness ==
    /\ ld.issued # <<>>
    /\ ~ld.issued[Len(ld.issued)].ok
    /\ ld.issued[Len(ld.issued)].stage = "Person"
    /\ Len(ld.issued) < NumChunks(ld.tables.Person, ld.node_batch)

\* C10: a stage that ends with an error leaves the tables and the store as
\* they were when it started.
C10_FailedStageLeavesNoTrace ==
    (pc = "idle" /\ last.err # "none") =>
        (disk = snap.disk /\ store = snap.store)

\* every table exists and has the columns the loader selects
InputsComplete(d) ==
    \A st \in SeqToSet(Stages) :
        /\ d[StageInput[st].file].present
        /\ StageInput[st].cols \subseteq d[StageInput[st].file].cols

\* C11: a batch is issued only in a run that read all seven tables with their
\* columns and whose connectivity probe succeeded; a run that finds a table
\* missing ends with the read error, a run whose probe fails ends with the
\* probe's error before its first batch, and both leave the store as they
\* found it.
C11_NoWriteBeforeVerified ==
    /\ (pc \in {"load_connect", "load_batch"} \/ (pc = "idle" /\ last.prog = "load")) =>
          /\ (pc = "load_batch" \/ store # snap.store) =>
                 InputsComplete(snap.disk) /\ ld.connected
          /\ ~InputsComplete(snap.disk) =>
                 store = snap.store /\ (pc = "idle" => last.err = ReadError(snap.disk))
    /\ (pc = "idle" /\ last = Outcome("load", "ServiceUnavailable")) =>
          store = snap.store /\ ld.issued = <<>> /\ ~ld.connected /\ ld.stage = 0

C11_Witness ==
    /\ pc = "idle"
    /\ last = Outcome("load", "FileNotFoundError")
    /\ runs.load = MaxRuns
    /\ \E t \in Tables : ~disk[t].present /\ \A u \in Tables \ {t} : disk[u].present

\* C12: only a run that built a ring and whose floor(n * s) is positive gets
\* as far as changing the transaction table; a run that built no ring ends
\* with RuntimeError, one whose floor(n * s) is zero with ValueError, and both
\* leave every table as it was when the run started.
C12_ConfigErrorsLeaveNoTrace ==
    last.prog = "inject" =>
        LET floor == (Len(inj.tx.rows) * cfg.fraud_tx_share) \div 100
        IN  /\ (pc = "inject_write" \/ disk # snap.disk \/ InjectDone) =>
                   inj.rings # <<>> /\ floor > 0
            /\ (pc = "idle" /\ inj.tx.present /\ inj.rings = <<>>) =>
                   last.err = "RuntimeError" /\ disk = snap.disk
            /\ (pc = "idle" /\ inj.tx.present /\ inj.rings # <<>> /\ floor = 0) =>
                   last.err = "ValueError" /\ disk = snap.disk

C12_Witness ==
    /\ pc = "idle"
    /\ last = Outcome("inject", "RuntimeError")
    /\ Len(disk.people.rows) > 0
    /\ disk.transactions.present

\* C13: with the seed and the configuration fixed, a completed run of a stage
\* that read the tables its first completed run read has written the tables
\* that run wrote, so a second run of generator, enrichment and injector
\* leaves the tables of the first.
C13_Deterministic ==
    \A p \in DOMAIN done :
        (/\ pc = "idle"
         /\ last = Outcome(p, "none")
         /\ ReadBy(p, snap.disk) = done[p].read)
        => WrittenBy(p, disk) = done[p].wrote

C13_Witness ==
    /\ InjectDone
    /\ "inject" \in DOMAIN done
    /\ done.inject.run < runs.inject
    /\ ReadBy("inject", snap.disk) = done.inject.read
    /\ disk.transactions # snap.disk.transactions

\* the identifier column of each entity table
KeyColumn ==
    [people |-> "person_id", merchants |-> "merchant_id", transactions |-> "tx_id",
     devices |-> "device_id", ips |-> "ip", cards |-> "card_hash",
     addresses |-> "address_hash"]

Distinct(seq) == Cardinality(SeqToSet(seq)) = Len(seq)

\* C14: in every table on disk no two rows carry the same identifier.
C14_IdentifiersUnique ==
    \A t \in Tables : disk[t].present => Distinct(Column(disk[t], KeyColumn[t]))

\* C14 without the IPs table: the identifiers built from a row index are
\* unique.
C14_IndexedIdentifiersUnique ==
    \A t \in Tables \ {"ips"} :
        disk[t].present => Distinct(Column(disk[t], KeyColumn[t]))

\* C15: after a completed injector run a row is labelled 1 exactly when its
\* index was selected in that run, each index being selected at most once;
\* a row that was not selected keeps its person, timestamp and four
\* infrastructure references, and every row keeps its tx_id, amount, currency
\* and merchant_id.
C15_LabelOnlyCoercedRows ==
    InjectDone =>
        LET before == inj.tx.rows
            after == disk.transactions.rows
            selected == SeqToSet(inj.fraud_idx)
        IN  /\ Len(after) = Len(before)
            /\ Distinct(inj.fraud_idx)
            /\ selected \subseteq 0..(Len(before) - 1)
            /\ \A i \in 1..Len(after) :
                  /\ after[i].is_fraud = (IF i - 1 \in selected THEN 1 ELSE 0)
                  /\ i - 1 \notin selected =>
                         \A c \in TxCoerceCols : after[i][c] = before[i][c]
                  /\ \A c \in {"tx_id", "amount", "currency", "merchant_id"} :
                         after[i][c] = before[i][c]

C15_Witness ==
    /\ InjectDone
    /\ "is_fraud" \in inj.tx.cols
    /\ \E i \in 1..Len(inj.tx.rows) : inj.tx.rows[i].is_fraud = 1
    /\ SeqToSet(inj.fraud_idx) \notin {{}, 0..(Len(inj.tx.rows) - 1)}
    /\ inj.fraud_idx[1] # 0

\* C16: for a non-empty pool _sample_with_reuse returns n members of the pool,
\* those taken on the reuse branch from the first
\* max(10, floor(|pool| * clamp(reuse_strength, 0.02, 0.2))) entries of the
\* pool; for an empty pool it raises, whatever n is.
C16_SampleWithReuse ==
    LET pool == enr.pool
        clamp == IF cfg.reuse_strength < 2 THEN 2
                 ELSE IF cfg.reuse_strength > 20 THEN 20 ELSE cfg.reuse_strength
        k == (Len(pool) * clamp) \div 100
        hot_k == IF k < 10 THEN 10 ELSE k
        hot == {pool[i] : i \in 1..(IF Len(pool) < hot_k THEN Len(pool) ELSE hot_k)}
    IN  /\ pc = "sample_returned" =>
              /\ pool # <<>>
              /\ Len(enr.out) = enr.n
              /\ \A i \in 1..enr.n :
                    /\ enr.out[i] \in SeqToSet(pool)
                    /\ enr.hot[i] => enr.out[i] \in hot
        /\ pc = "sample_raised" => pool = <<>> /\ last.err = "ValueError"
        /\ (pool = <<>> /\ pc # "sample_call") => pc = "sample_raised"

C16_Witness ==
    /\ pc = "sample_returned"
    /\ Len(enr.pool) = 5 * MaxPool
    /\ enr.n = MaxSamples
    /\ \E i, j \in 1..enr.n : enr.hot[i] /\ ~enr.hot[j]
    /\ \E i \in 1..enr.n : ~enr.hot[i] /\ enr.out[i] \notin SeqToSet(SubSeq(enr.pool, 1, MaxPool))

\* the injector has read its tables and built its rings
RingsBuilt == last.prog = "inject" /\ inj.tx.present

\* C17: when fewer than n_rings rings were built, fewer than ring_size_min
\* Person ids are left unassigned; every ring is a consecutive slice of the
\* shuffled list with a size between ring_size_min and ring_size_max.
C17_StopsOnlyWhenExhausted ==
    RingsBuilt =>
        /\ Len(inj.rings) < cfg.n_rings =>
               Len(inj.person_ids) - inj.cursor < cfg.ring_size_min
        /\ \A i \in 1..Len(inj.rings) :
               /\ Len(inj.rings[i]) \in cfg.ring_size_min..cfg.ring_size_max
               /\ \E c \in 0..Len(inj.person_ids) :
                      inj.rings[i] = SubSeq(inj.person_ids, c + 1, c + Len(inj.rings[i]))

\* C18: every coerced row has a person of the ring chosen for it, the time of
\* that ring's anchor shifted by a whole number of hours within the burst
\* window, and for each infrastructure kind either the ring's shared value or
\* the value the row had; every anchor is a timestamp of the table read.
C18_CoercionPostcondition ==
    InjectDone =>
        LET before == inj.tx.rows
            after == disk.transactions.rows
            W == cfg.burst_hours_window
        IN  /\ Len(inj.picks) = Len(inj.fraud_idx)
            /\ \A k \in 1..Len(inj.picks) :
                  LET i == inj.picks[k].idx + 1
                      r == inj.picks[k].r_i + 1
                      sh == inj.ring_shared[r]
                  IN  /\ inj.picks[k].idx = inj.fraud_idx[k]
                      /\ r \in 1..Len(inj.rings)
                      /\ after[i].person_id \in SeqToSet(inj.rings[r])
                      /\ \E j \in (-W)..W :
                            after[i].ts = inj.anchor_times[r] + j * HourSeconds
                      /\ after[i].device_id \in {sh.device, before[i].device_id}
                      /\ after[i].ip \in {sh.ip, before[i].ip}
                      /\ after[i].card_hash \in {sh.card, before[i].card_hash}
                      /\ after[i].address_hash \in {sh.addr, before[i].address_hash}
            /\ Len(inj.anchor_times) = Len(inj.rings)
            /\ \A r \in 1..Len(inj.anchor_times) :
                  inj.anchor_times[r] \in SeqToSet(Column(inj.tx, "ts"))

C18_Witness ==
    /\ InjectDone
    /\ \E k \in 1..Len(inj.picks) :
          /\ inj.picks[k].hours # 0
          /\ inj.picks[k].shared[1]
          /\ ~inj.picks[k].shared[2]
          /\ disk.transactions.rows[inj.picks[k].idx + 1].device_id
                 # inj.tx.rows[inj.picks[k].idx + 1].device_id

\* C19: after a completed injector run every timestamp lies between the
\* earliest and the latest timestamp of the table the run read.
C19_TimestampsWithinBounds ==
    InjectDone =>
        LET ts == SeqToSet(Column(inj.tx, "ts"))
        IN  \A i \in 1..Len(disk.transactions.rows) :
                /\ \E lo \in ts : lo <= disk.transactions.rows[i].ts
                /\ \E hi \in ts : disk.transactions.rows[i].ts <= hi

====
